---- MODULE Spec2Model ----
(***************************************************************************)
(* Model of the OSMod frontend platform layer:                             *)
(*   - the realtime notifier (connectNotifier / checkSocketAlive /         *)
(*     ws.onopen / ws.onclose / ws.onmessage / disconnectNotifier),        *)
(*   - the JSONAPI model calls guarded by validateModelName,               *)
(*   - ArticleModel's URL sanitisation as used by packArticleData.         *)
(***************************************************************************)
EXTENDS Integers, Sequences, FiniteSets, TLC

(***************************************************************************)
(* Bounds of the model.                                                    *)
(***************************************************************************)
MaxSockets == 2      \* sockets created by checkSocketAlive in one run
MaxConnects == 2     \* calls of connectNotifier in one run
MaxRequests == 1     \* HTTP requests recorded in one run
MaxArticles == 1     \* articles in one 'global' / 'article-update' payload

(***************************************************************************)
(* Program constants.                                                      *)
(***************************************************************************)
STATUS_DOWN == "down"
STATUS_UP == "up"
STATUS_RESET == "reset"
AuthRejectCode == 1005

NoSocket == 0                      \* ws === null
NoTimer == 0                       \* intervalTimer === undefined
SocketIds == 1..MaxSockets
TimerIds == 1..MaxConnects
Tokens == {"t1", "t2"}             \* values of the stored token
CloseCodes == {1005, 1006}   \* e.code of a close event
SyncTypes == {"system", "global", "user"}
MessageKinds == SyncTypes \cup {"article-update", "unknown", "malformed"}

VARIABLES
  ws,             \* module variable ws: NoSocket or the id of the current socket
  sockets,        \* every socket object created so far
  nSockets,       \* number of sockets created so far
  timers,         \* interval timers that are still running
  intervalTimer,  \* module variable intervalTimer: handle of the last setInterval
  nTimers,        \* number of setInterval calls so far
  gotSystem, gotArticles, gotUser, socketUp,
  token,          \* what getToken() returns now
  lastStatus,     \* last status passed to websocketStateHandler ("none" before)
  handled,        \* which of systemDataHandler ("system"), allArticlesDataHandler
                  \* ("global") and perUserDataHandler ("user") have been called
  sync,           \* 'system'/'global'/'user' messages received, since the last
                  \* RESET or DOWN report, on sockets created after that report
  last,           \* what the step that ran last reported
  requests,       \* HTTP requests sent through axios, in order
  call,           \* the model call that ran last and its outcome
  articles,       \* payload handed to packArticleData / packArticleUpdate
  packed          \* result of packing it

notifierVars == <<ws, sockets, nSockets, timers, intervalTimer, nTimers,
                  gotSystem, gotArticles, gotUser, socketUp, token,
                  lastStatus, handled, sync, last>>
restVars == <<requests, call>>
articleVars == <<articles, packed>>
vars == <<notifierVars, restVars, articleVars>>

(***************************************************************************)
(* Realtime notifier.                                                      *)
(***************************************************************************)
NoSocketObject ==
  [readyState |-> "NONE", token |-> "none", onclose |-> FALSE,
   opened |-> FALSE, fresh |-> FALSE]

\* what the last step reported: the statuses passed to websocketStateHandler,
\* in order; for a close event also e.code and whether the socket was the
\* current one and had opened
Event(code, reported, cur) ==
  [code |-> code, reported |-> reported, cur |-> cur]

Quiet == Event(0, <<>>, FALSE)

\* localStore.getToken(): the token stored at the moment of the call
getToken == token

\* variant: the url built for the first socket is kept and used again
SocketUrlTokenCached ==
  IF nSockets = 0 THEN getToken ELSE sockets[nSockets].token

\* const token = getToken() in checkSocketAlive: the token put in the url
SocketUrlToken == getToken

\* variant: only a missing socket is replaced
NeedsNewSocketOnlyNull == ws = NoSocket

\* the condition of checkSocketAlive: !ws || ws.readyState !== myws.OPEN
NeedsNewSocket ==
  ws = NoSocket \/ sockets[ws].readyState # "OPEN"

\* a closed socket that ws does not refer to is unreachable: no event
\* fires on it and no code can read it, so only its readyState is kept
ClosedSocketObject ==
  [readyState |-> "CLOSED", token |-> "none", onclose |-> FALSE,
   opened |-> FALSE, fresh |-> FALSE]

Unreachable(socks, current) ==
  [s \in SocketIds |->
     IF socks[s].readyState = "CLOSED" /\ s # current
     THEN ClosedSocketObject
     ELSE socks[s]]

\* the body of checkSocketAlive: new myws(url) with the token in the url;
\* onopen and onmessage are installed on the new socket
checkSocketAlive ==
  IF NeedsNewSocket
  THEN /\ nSockets < MaxSockets
       /\ nSockets' = nSockets + 1
       /\ ws' = nSockets + 1
       /\ sockets' = Unreachable(
                        [sockets EXCEPT ![nSockets + 1] =
                           [readyState |-> "CONNECTING",
                            token |-> SocketUrlToken, onclose |-> FALSE,
                            opened |-> FALSE, fresh |-> TRUE]],
                        nSockets + 1)
  ELSE UNCHANGED <<ws, sockets, nSockets>>

\* bookkeeping of websocketStateHandler(status): after a RESET or DOWN report
\* no socket counts as created after the last such report (fresh), and
\* nothing has been received since
WentDown(reported) ==
  reported # <<>> /\ reported[Len(reported)] # STATUS_UP

Report(socks, reported) ==
  IF WentDown(reported)
  THEN [s \in SocketIds |-> [socks[s] EXCEPT !.fresh = FALSE]]
  ELSE socks

StatusAfter(reported) ==
  IF reported = <<>> THEN lastStatus ELSE reported[Len(reported)]

SyncAfter(received, reported) ==
  IF WentDown(reported) THEN {} ELSE received

\* connectNotifier: checkSocketAlive() at once, then setInterval
connectNotifier ==
  /\ nTimers < MaxConnects
  /\ checkSocketAlive
  /\ nTimers' = nTimers + 1
  /\ timers' = timers \cup {nTimers + 1}
  /\ intervalTimer' = nTimers + 1
  /\ last' = Quiet
  /\ UNCHANGED <<gotSystem, gotArticles, gotUser, socketUp, token,
                 lastStatus, handled, sync>>
  /\ UNCHANGED <<restVars, articleVars>>

\* one firing of an interval timer that was not cleared
TimerFires(t) ==
  /\ t \in timers
  /\ checkSocketAlive
  /\ last' = Quiet
  /\ UNCHANGED <<timers, intervalTimer, nTimers, gotSystem, gotArticles,
                 gotUser, socketUp, token, lastStatus,
                 handled, sync>>
  /\ UNCHANGED <<restVars, articleVars>>

\* WebSocket.close(): CONNECTING and OPEN sockets start closing
CloseCalled(sock) ==
  IF sock.readyState \in {"CONNECTING", "OPEN"}
  THEN [sock EXCEPT !.readyState = "CLOSING"]
  ELSE sock

\* disconnectNotifier: clearInterval(intervalTimer); ws.close()
\* (ws.close() throws a TypeError when ws is null)
disconnectNotifier ==
  /\ timers' = timers \ {intervalTimer}
  /\ IF ws = NoSocket
     THEN UNCHANGED sockets
     ELSE sockets' = [sockets EXCEPT ![ws] = CloseCalled(@)]
  /\ last' = Quiet
  /\ UNCHANGED <<ws, nSockets, intervalTimer, nTimers, gotSystem, gotArticles,
                 gotUser, socketUp, token, lastStatus,
                 handled, sync>>
  /\ UNCHANGED <<restVars, articleVars>>

\* the open event of socket s: onopen installs the close handler on the
\* socket that the module variable ws refers to at that moment
\* (ws.onclose = ... throws a TypeError when ws is null)
SocketOpens(s) ==
  /\ sockets[s].readyState = "CONNECTING"
  /\ LET opened == [sockets EXCEPT ![s].readyState = "OPEN",
                                   ![s].opened = TRUE]
     IN  sockets' = IF ws = NoSocket THEN opened
                    ELSE [opened EXCEPT ![ws].onclose = TRUE]
  /\ last' = Quiet
  /\ UNCHANGED <<ws, nSockets, timers, intervalTimer, nTimers, gotSystem,
                 gotArticles, gotUser, socketUp, token, lastStatus,
                 handled, sync>>
  /\ UNCHANGED <<restVars, articleVars>>

\* e.code === 1005 in ws.onclose
IsAuthReject(code) == code = AuthRejectCode

\* variant: || in place of &&
NeverGotMessageAny == ~gotSystem \/ ~gotArticles \/ ~gotUser

\* !gotSystem && !gotArticles && !gotUser in ws.onclose
NeverGotMessage == ~gotSystem /\ ~gotArticles /\ ~gotUser

\* variant: the 1005 branch without its return
OnCloseReportsNoReturn(code) ==
  (IF code = AuthRejectCode THEN <<STATUS_RESET>> ELSE <<>>)
  \o (IF ~gotSystem /\ ~gotArticles /\ ~gotUser
      THEN <<STATUS_RESET>> ELSE <<STATUS_DOWN>>)

\* the calls of websocketStateHandler made by ws.onclose, in order
OnCloseReports(code) ==
  IF IsAuthReject(code) THEN <<STATUS_RESET>>
  ELSE IF NeverGotMessage THEN <<STATUS_RESET>>
  ELSE <<STATUS_DOWN>>

\* the close event of socket s with e.code = code; the handler runs only
\* when one was installed on s
SocketCloses(s, code) ==
  /\ sockets[s].readyState \in {"CONNECTING", "OPEN", "CLOSING"}
  /\ LET closed == [sockets EXCEPT ![s].readyState = "CLOSED",
                                   ![s].opened = FALSE,
                                   ![s].fresh = FALSE]
         reported == IF sockets[s].onclose THEN OnCloseReports(code) ELSE <<>>
         resets == sockets[s].onclose /\ ~IsAuthReject(code)
     IN  /\ socketUp' = IF resets THEN FALSE ELSE socketUp
         /\ ws' = IF resets THEN NoSocket ELSE ws
         /\ sockets' = Unreachable(Report(closed, reported),
                                   IF resets THEN NoSocket ELSE ws)
         /\ lastStatus' = StatusAfter(reported)
         /\ sync' = SyncAfter(sync, reported)
         /\ last' = Event(code, reported, s = ws /\ sockets[s].opened)
  /\ UNCHANGED <<nSockets, timers, intervalTimer, nTimers, gotSystem,
                 gotArticles, gotUser, token, handled>>
  /\ UNCHANGED <<restVars, articleVars>>

\* variant: gotUser left out of the condition
UpConditionNoUser(gs, ga, gu, up) == gs /\ ga /\ ~up

\* gotSystem && gotArticles && gotUser && !socketUp in ws.onmessage
UpCondition(gs, ga, gu, up) == gs /\ ga /\ gu /\ ~up

\* a message event on socket s, which is open or was open when close() was
\* called.  "malformed" is a body that JSON.parse or the pack function
\* rejects: the exception leaves the handler before any flag is set.
\* "unknown" is a well-formed body of a type the handler ignores.
SocketMessage(s, kind) ==
  /\ sockets[s].readyState \in {"OPEN", "CLOSING"}
  /\ sockets[s].opened
  /\ gotSystem' = (gotSystem \/ kind = "system")
  /\ gotArticles' = (gotArticles \/ kind = "global")
  /\ gotUser' = (gotUser \/ kind = "user")
  /\ handled' = handled \cup ({kind} \cap SyncTypes)
  /\ LET up == kind # "malformed"
               /\ UpCondition(gotSystem', gotArticles', gotUser', socketUp)
         reported == IF up THEN <<STATUS_UP>> ELSE <<>>
         received == IF sockets[s].fresh
                     THEN sync \cup ({kind} \cap SyncTypes)
                     ELSE sync
     IN  /\ socketUp' = (socketUp \/ up)
         /\ sockets' = Report(sockets, reported)
         /\ lastStatus' = StatusAfter(reported)
         /\ sync' = SyncAfter(received, reported)
         /\ last' = Event(0, reported, FALSE)
  /\ UNCHANGED <<ws, nSockets, timers, intervalTimer, nTimers, token>>
  /\ UNCHANGED <<restVars, articleVars>>

\* a new login stores a token that was not stored before
TokenChanges(t) ==
  /\ token = "t1"
  /\ t = "t2"
  /\ token' = t
  /\ last' = Quiet
  /\ UNCHANGED <<ws, sockets, nSockets, timers, intervalTimer, nTimers,
                 gotSystem, gotArticles, gotUser, socketUp, lastStatus,
                 handled, sync>>
  /\ UNCHANGED <<restVars, articleVars>>

NotifierInit ==
  /\ ws = NoSocket
  /\ sockets = [s \in SocketIds |-> NoSocketObject]
  /\ nSockets = 0
  /\ timers = {}
  /\ intervalTimer = NoTimer
  /\ nTimers = 0
  /\ gotSystem = FALSE
  /\ gotArticles = FALSE
  /\ gotUser = FALSE
  /\ socketUp = FALSE
  /\ token = "t1"
  /\ lastStatus = "none"
  /\ handled = {}
  /\ sync = {}
  /\ last = Quiet

(***************************************************************************)
(* JSONAPI model calls guarded by validateModelName.                       *)
(***************************************************************************)
\* the keys of the object literal VALID_MODEL_NAMES_LOOKUP
ValidModelNames ==
  {"articles", "categories", "comment_scores", "comments", "moderation_rules",
   "preselects", "tagging_sensitivities", "tags", "users"}

\* property names every object literal inherits from Object.prototype
ObjectPrototypeKeys == {"constructor", "toString", "__proto__"}

\* strings passed as the model type
TypeInputs == ValidModelNames \cup ObjectPrototypeKeys \cup {"widgets", ""}
IdInputs == {"7"}

\* VALID_MODEL_NAMES_LOOKUP[name]: the own property, else the inherited one,
\* else undefined
VALID_MODEL_NAMES_LOOKUP(name) ==
  IF name \in ValidModelNames THEN "true"
  ELSE IF name \in ObjectPrototypeKeys THEN "inherited"
  ELSE "undefined"

\* validateModelName(name): TRUE when it returns, FALSE when it throws
validateModelName(name) == VALID_MODEL_NAMES_LOOKUP(name) # "undefined"

Thrown == [threw |-> TRUE, url |-> <<>>]
Url(path) == [threw |-> FALSE, url |-> path]

\* listURL(type) without params: API_URL/rest/type
listURL(type) ==
  IF validateModelName(type) THEN Url(<<"rest", type>>) ELSE Thrown

\* modelURL(type, id) without params: listURL(type)/id
modelURL(type, id) ==
  IF ~validateModelName(type) THEN Thrown
  ELSE IF listURL(type).threw THEN Thrown
  ELSE Url(Append(listURL(type).url, id))

Call(op, type, threw, sent) ==
  [op |-> op, type |-> type, threw |-> threw, sent |-> sent]

\* a call that validates the type, builds the url and hands it to axios
ModelCall(op, method, type, target) ==
  /\ IF ~validateModelName(type) \/ target.threw
     THEN /\ UNCHANGED requests
          /\ call' = Call(op, type, TRUE, 0)
     ELSE /\ Len(requests) < MaxRequests
          /\ requests' = Append(requests, [method |-> method, url |-> target.url])
          /\ call' = Call(op, type, FALSE, 1)
  /\ UNCHANGED <<notifierVars, articleVars>>

\* createModel(type, model): axios.post(listURL(type), ...)
createModel(type) == ModelCall("createModel", "POST", type, listURL(type))

\* updateModel(type, id, model): axios.patch(modelURL(type, id), ...)
updateModel(type, id) ==
  ModelCall("updateModel", "PATCH", type, modelURL(type, id))

\* destroyModel(type, id): axios.delete(modelURL(type, id))
destroyModel(type, id) ==
  ModelCall("destroyModel", "DELETE", type, modelURL(type, id))

\* listURL / modelURL called on their own: no request is involved
BuildListURL(type) ==
  /\ call' = Call("listURL", type, listURL(type).threw, 0)
  /\ UNCHANGED <<requests, notifierVars, articleVars>>

BuildModelURL(type, id) ==
  /\ call' = Call("modelURL", type, modelURL(type, id).threw, 0)
  /\ UNCHANGED <<requests, notifierVars, articleVars>>

RestInit ==
  /\ requests = <<>>
  /\ call = Call("none", "", FALSE, 0)

RestNext ==
  \/ \E type \in TypeInputs : createModel(type)
  \/ \E type \in TypeInputs, id \in IdInputs : updateModel(type, id)
  \/ \E type \in TypeInputs, id \in IdInputs : destroyModel(type, id)
  \/ \E type \in TypeInputs : BuildListURL(type)
  \/ \E type \in TypeInputs, id \in IdInputs : BuildModelURL(type, id)

(***************************************************************************)
(* ArticleModel and the pack functions that apply it.                      *)
(***************************************************************************)
Chars(str) ==
  CASE str = "https://a" -> <<"h", "t", "t", "p", "s", ":", "/", "/", "a">>
    [] str = "http://a" -> <<"h", "t", "t", "p", ":", "/", "/", "a">>
    [] str = "httpx://" -> <<"h", "t", "t", "p", "x", ":", "/", "/">>
    [] str = "HTTP://a" -> <<"H", "T", "T", "P", ":", "/", "/", "a">>
    [] str = "ftp://a" -> <<"f", "t", "p", ":", "/", "/", "a">>
    [] str = "js:a" -> <<"j", "s", ":", "a">>
    [] str = "//a" -> <<"/", "/", "a">>
    [] str = "http://" -> <<"h", "t", "t", "p", ":", "/", "/">>
    [] str = "https://" -> <<"h", "t", "t", "p", "s", ":", "/", "/">>

Prefixes(str) == {SubSeq(str, 1, n) : n \in 0..Len(str)}

\* url attribute values: null, or a string (a sequence of characters)
NullUrl == [null |-> TRUE, str |-> <<>>]
StringUrl(str) == [null |-> FALSE, str |-> str]

UrlInputs ==
  {NullUrl} \cup
  {StringUrl(str) : str \in UNION {Prefixes(Chars(sample)) : sample \in
     {"https://a", "http://a", "httpx://", "HTTP://a", "ftp://a", "js:a",
      "//a"}}}

ArticleInputs == [url : UrlInputs, title : {"a", "b"}]

\* String.prototype.startsWith
startsWith(str, prefix) ==
  /\ Len(str) >= Len(prefix)
  /\ SubSeq(str, 1, Len(prefix)) = prefix

\* if (articleData.url): null and '' are falsy
Truthy(url) == ~url.null /\ url.str # <<>>

\* variant: the prefix test stops before '://'
ArticleModelHttpOnly(articleData) ==
  IF Truthy(articleData.url)
     /\ ~startsWith(articleData.url.str, <<"h", "t", "t", "p">>)
  THEN [articleData EXCEPT !.url = NullUrl]
  ELSE articleData

\* ArticleModel(articleData)
ArticleModel(articleData) ==
  IF Truthy(articleData.url)
     /\ ~startsWith(articleData.url.str, Chars("http://"))
     /\ ~startsWith(articleData.url.str, Chars("https://"))
  THEN [articleData EXCEPT !.url = NullUrl]
  ELSE articleData

\* data.articles.map(a => ArticleModel(a))
MapArticleModel(list) == [i \in 1..Len(list) |-> ArticleModel(list[i])]

\* data with or without an articles array
PayloadInputs ==
  {[has |-> FALSE, list |-> <<>>]} \cup
  {[has |-> TRUE, list |-> list] :
     list \in UNION {[1..n -> ArticleInputs] : n \in 0..MaxArticles}}

Packed(by, threw, has, list) ==
  [by |-> by, threw |-> threw, has |-> has, list |-> list]

\* packArticleData(data): data.articles.map throws when articles is missing
packArticleData ==
  /\ packed' = IF articles.has
               THEN Packed("packArticleData", FALSE, TRUE,
                           MapArticleModel(articles.list))
               ELSE Packed("packArticleData", TRUE, FALSE, <<>>)
  /\ UNCHANGED <<articles, notifierVars, restVars>>

\* packArticleUpdate(data): articles stays undefined when it is missing
packArticleUpdate ==
  /\ packed' = IF articles.has
               THEN Packed("packArticleUpdate", FALSE, TRUE,
                           MapArticleModel(articles.list))
               ELSE Packed("packArticleUpdate", FALSE, FALSE, <<>>)
  /\ UNCHANGED <<articles, notifierVars, restVars>>

ArticleInit ==
  /\ articles = [has |-> FALSE, list |-> <<>>]
  /\ packed = Packed("none", FALSE, FALSE, <<>>)

ArticleNext == packArticleData \/ packArticleUpdate

(***************************************************************************)
(* Specifications.                                                         *)
(***************************************************************************)
Init == NotifierInit /\ RestInit /\ ArticleInit

Next ==
  \/ connectNotifier
  \/ disconnectNotifier
  \/ \E t \in TimerIds : TimerFires(t)
  \/ \E s \in SocketIds : SocketOpens(s)
  \/ \E s \in SocketIds, code \in CloseCodes : SocketCloses(s, code)
  \/ \E s \in SocketIds, kind \in MessageKinds : SocketMessage(s, kind)
  \/ \E t \in Tokens : TokenChanges(t)

\* the notifier with its environment (timers, socket events, logins)
Spec == Init /\ [][Next]_vars

\* setInterval keeps firing a timer that was not cleared
LiveSpec == Spec /\ WF_vars(\E t \in TimerIds : TimerFires(t))

\* the model calls, for every type string
RestSpec == Init /\ [][RestNext]_vars

\* the pack functions, for every payload
ArticleSpecInit ==
  /\ NotifierInit
  /\ RestInit
  /\ articles \in PayloadInputs
  /\ packed = Packed("none", FALSE, FALSE, <<>>)

ArticleSpec == ArticleSpecInit /\ [][ArticleNext]_vars

(***************************************************************************)
(* Properties.                                                             *)
(***************************************************************************)
\* connectNotifier has been called and disconnectNotifier has not been
\* called since: the interval set by the last connectNotifier is running
Connected == intervalTimer \in timers

SocketDown == ws = NoSocket \/ sockets[ws].readyState # "OPEN"

\* the current socket has closed: the close handler cleared ws, or ws still
\* refers to the closed socket
SocketClosed == ws = NoSocket \/ sockets[ws].readyState = "CLOSED"

\* a step in which a periodic check changes the sockets: connectNotifier is
\* the only other step that can create a socket, and it also sets a timer
PeriodicCheck == nTimers' = nTimers /\ nSockets' # nSockets

\* the current socket, which had opened, gets its close event in this step
CurrentSocketCloses ==
  /\ ws # NoSocket
  /\ sockets[ws].opened
  /\ sockets[ws].readyState \in {"OPEN", "CLOSING"}
  /\ sockets'[ws].readyState = "CLOSED"

\* C1: a periodic check creates a socket only when the current socket is
\* absent or not OPEN, the new socket becomes the current one and nothing else
\* of the module state changes; and while the notifier is connected, a close
\* of the current socket is eventually followed by a new connection attempt
\* (or by a disconnect).
C1_Reconnect ==
  /\ [][PeriodicCheck =>
          /\ SocketDown
          /\ nSockets' = nSockets + 1
          /\ ws' = nSockets'
          /\ ws' # ws
          /\ sockets'[ws'].readyState = "CONNECTING"
          /\ UNCHANGED <<timers, intervalTimer, gotSystem, gotArticles,
                         gotUser, socketUp>>]_vars
  /\ \A n \in 0..(MaxSockets - 1) :
       (Connected /\ SocketClosed /\ nSockets = n)
          ~> (nSockets > n \/ ~Connected)

\* C1 witness: after a reported DOWN or RESET a periodic check has created a
\* further socket, which is now the current one
C1_Witness ==
  /\ nTimers = 1
  /\ lastStatus \in {STATUS_DOWN, STATUS_RESET}
  /\ nSockets >= 2
  /\ ws = nSockets
  /\ sockets[ws].readyState = "CONNECTING"

\* C2: once DOWN or RESET has been reported and a new socket has been
\* created and opened after that report, STATUS_UP is reported only when
\* 'system', 'global' and 'user' have all been received on sockets created
\* after the report.
C2_Resync ==
  [][(last'.reported = <<STATUS_UP>>
      /\ lastStatus \in {STATUS_DOWN, STATUS_RESET}
      /\ \E s \in SocketIds : sockets[s].fresh /\ sockets[s].opened)
        => sync' = SyncTypes]_vars

\* C3: whenever STATUS_UP is reported, systemDataHandler,
\* allArticlesDataHandler and perUserDataHandler have each been called
\* for a received message.
C3_UpNeedsAllThree ==
  (last.reported # <<>> /\ last.reported[Len(last.reported)] = STATUS_UP)
     => handled = SyncTypes

\* C3 witness: STATUS_UP has just been reported
C3_Witness ==
  /\ last.reported = <<STATUS_UP>>
  /\ socketUp

\* C6: a socket created in a step carries the token stored at that moment.
C6_FreshToken ==
  [][nSockets' = nSockets + 1 => sockets'[nSockets'].token = token]_vars

\* C6 witness: the stored token changed between two attempts, and the later
\* socket carries the new token
C6_Witness ==
  /\ nSockets >= 2
  /\ sockets[nSockets].token = "t2"
  /\ sockets[nSockets - 1].token = "t1"
  /\ token = "t2"

C9_Recovery ==
  lastStatus \in {STATUS_DOWN, STATUS_RESET} => sync # SyncTypes

\* C10: while no connectNotifier has followed the last disconnectNotifier,
\* a periodic check creates no socket.
C10_NoCheckAfterDisconnect ==
  [][(~Connected /\ nTimers' = nTimers) => nSockets' = nSockets]_vars

\* C4: a model call or URL builder given a type outside the nine valid names
\* throws and sends nothing; createModel, updateModel and destroyModel given
\* a valid name send exactly one request.
C4_TypeValidated ==
  /\ (call.op # "none"
      /\ call.type \notin {"articles", "categories", "comment_scores",
                           "comments", "moderation_rules", "preselects",
                           "tagging_sensitivities", "tags", "users"})
       => (call.threw /\ call.sent = 0)
  /\ (call.op \in {"createModel", "updateModel", "destroyModel"}
      /\ call.type \in {"articles", "categories", "comment_scores",
                        "comments", "moderation_rules", "preselects",
                        "tagging_sensitivities", "tags", "users"})
       => (~call.threw /\ call.sent = 1)

HasHttpPrefix(str) ==
  \E n \in 0..Len(str) :
    SubSeq(str, 1, n) \in {<<"h", "t", "t", "p", ":", "/", "/">>,
                           <<"h", "t", "t", "p", "s", ":", "/", "/">>}

\* C5: every article returned by ArticleModel has a url that is null, empty
\* or starts with 'http://' or 'https://'; a url with such a prefix is
\* unchanged, any other non-empty url becomes null, and the other
\* attributes are unchanged.
C5_UrlSanitised ==
  (packed.by # "none" /\ packed.has) =>
     /\ Len(packed.list) = Len(articles.list)
     /\ \A i \in 1..Len(articles.list) :
          LET in == articles.list[i]
              out == packed.list[i]
          IN  /\ out.url.null \/ out.url.str = <<>> \/ HasHttpPrefix(out.url.str)
              /\ (in.url.null \/ in.url.str = <<>> \/ HasHttpPrefix(in.url.str))
                   => out.url = in.url
              /\ (~in.url.null /\ in.url.str # <<>> /\ ~HasHttpPrefix(in.url.str))
                   => out.url = NullUrl
              /\ out.title = in.title

\* C5 witness: an article whose url had another scheme came back with a null
\* url
C5_Witness ==
  /\ packed.by # "none"
  /\ packed.has
  /\ \E i \in 1..Len(articles.list) :
       /\ ~articles.list[i].url.null
       /\ articles.list[i].url.str # <<>>
       /\ ~HasHttpPrefix(articles.list[i].url.str)
       /\ packed.list[i].url = NullUrl

====
